---- MODULE Spec2Model ----
(***************************************************************************)
(* Model of App.py: detection of DoS/DDoS attacks from the ratio of        *)
(* incoming to outgoing packets of a host in a short (base) window         *)
(* compared with the same ratio in a long window.                          *)
(*                                                                         *)
(* One step of Tick is one slide of the base window: the whole pipeline    *)
(* built by inspect_ddos is evaluated on the records received in the       *)
(* interval, followed by print_and_send.  Python tuples are TLA+ tuples,   *)
(* so the Python index t[i] is written t[i+1].  RDDs of pairs whose keys   *)
(* may repeat are sequences of <<key, value>>; RDDs with unique keys       *)
(* (after reduceByKey, join, filter, collectAsMap) are functions from key  *)
(* to value.  The records of the open interval form a bag, collected in    *)
(* some order when the window slides.  A Python float obtained from        *)
(* float(a)/b is kept as the exact fraction <<a, b>>; IEEE rounding is not *)
(* represented.                                                            *)
(***************************************************************************)
EXTENDS Integers, Sequences, FiniteSets, Bags, TLC

\* ---------------------------------------------------------------- bounds
MaxBatch == 2          \* records received in one base interval
HorizonIntervals == 2  \* base intervals in the long window (7200/30 = 240 in App.py)

\* ------------------------------------------------- parameters (__main__)
threshold == 50
minimal_incoming == 100000
base_window_length == 30
long_window_length == HorizonIntervals * base_window_length

\* network_filter such as "10\.10\..+": the leading octets an address must have
network_filter == <<10, 10>>

\* keys of a parsed flow record
SRC == "ipfix.sourceIPv4Address"
DST == "ipfix.destinationIPv4Address"
PKT == "ipfix.packetDeltaCount"

\* ------------------------------------------------------------ addresses
HostH == <<10, 10, 0, 1>>
HostG == <<10, 10, 0, 2>>
RemoteX == <<8, 8, 8, 8>>
RemoteY == <<9, 9, 9, 9>>
Addresses == {HostH, HostG, RemoteX, RemoteY}

Flow(s, d, p) == (SRC :> s) @@ (DST :> d) @@ (PKT :> p)

\* well-formed flow records that may arrive
FlowRecords ==
  { Flow(RemoteX, HostH, 150000),
    Flow(HostH, HostH, 100),
    Flow(HostH, HostG, 1),
    Flow(RemoteX, RemoteY, 100) }

\* a record without source address
AddressLessRecords == { (DST :> HostH) @@ (PKT :> 150000) }

\* a record without packet count
CountLessRecords == { (SRC :> RemoteX) @@ (DST :> HostH) }

\* ------------------------------------------------------------- helpers
Range(s) == { s[i] : i \in DOMAIN s }

EmptyMap == [k \in {} |-> <<>>]

RECURSIVE SetToSeq(_)
SetToSeq(S) ==
  IF S = {} THEN <<>>
  ELSE LET x == CHOOSE y \in S : TRUE IN <<x>> \o SetToSeq(S \ {x})

RECURSIVE BagToSeq(_)
\* the elements of a bag, each as often as it occurs, in some order
BagToSeq(B) ==
  IF B = EmptyBag THEN <<>>
  ELSE LET x == CHOOSE y \in BagToSet(B) : TRUE
       IN <<x>> \o BagToSeq(B (-) SetToBag({x}))

\* the orders in which the values of a sequence can be merged
SeqPermutations(s) == { [i \in DOMAIN s |-> s[p[i]]] : p \in Permutations(DOMAIN s) }

\* the pairs of a unique-key RDD, in some order
Pairs(m) == LET ks == SetToSeq(DOMAIN m) IN [i \in DOMAIN ks |-> <<ks[i], m[ks[i]]>>]

\* the keys of a pair RDD and the values of one key, in the order of the RDD
KeysOf(rdd) == { rdd[i][1] : i \in DOMAIN rdd }
ValuesOf(rdd, k) ==
  LET sel == SelectSeq(rdd, LAMBDA p : p[1] = k)
  IN [i \in DOMAIN sel |-> sel[i][2]]

\* re.match(local_ip_pattern, address): the pattern is matched at the start
re_match(pattern, address) ==
  /\ Len(address) > Len(pattern)
  /\ SubSeq(address, 1, Len(pattern)) = pattern

\* float(a) / b as an exact fraction
FloatDiv(a, b) == <<a, b>>
FloatMul(x, k) == <<x[1] * k, x[2]>>

RECURSIVE RatGT(_, _, _, _)
\* a/b > c/d for a, c >= 0 and b, d > 0, by the Euclidean expansion
RatGT(a, b, c, d) ==
  LET qa == a \div b
      qc == c \div d
      ra == a % b
      rc == c % d
  IN IF qa # qc THEN qa > qc
     ELSE IF ra = 0 THEN FALSE
     ELSE IF rc = 0 THEN TRUE
     ELSE RatGT(d, rc, b, ra)

FloatGT(x, y) == RatGT(x[1], x[2], y[1], y[2])

\* ------------------------------------------------ pipeline (inspect_ddos)
\* keep only the records with known source and destination address
filtered_stream_data(stream_data) ==
  SelectSeq(stream_data, LAMBDA json_rdd : SRC \in DOMAIN json_rdd /\ DST \in DOMAIN json_rdd)

\* a record selected by one of the two network filters is indexed by
\* "ipfix.packetDeltaCount" in the map that follows: KeyError when absent
RaisesKeyError(small_window) ==
  \E i \in DOMAIN small_window :
     /\ \/ re_match(network_filter, small_window[i][DST])
        \/ re_match(network_filter, small_window[i][SRC])
     /\ PKT \notin DOMAIN small_window[i]

\* variant: only remote sources count as inbound
incoming_small_flows_stats_remoteOnly(small_window) ==
  LET sel == SelectSeq(small_window, LAMBDA json_rdd :
                 /\ re_match(network_filter, json_rdd[DST])
                 /\ ~re_match(network_filter, json_rdd[SRC]))
  IN [i \in DOMAIN sel |-> <<sel[i][DST], <<sel[i][PKT], 0, {sel[i][SRC]}>>>>]

\* variant: the destination is recorded as the source
incoming_small_flows_stats_dstAsSource(small_window) ==
  LET sel == SelectSeq(small_window, LAMBDA json_rdd : re_match(network_filter, json_rdd[DST]))
  IN [i \in DOMAIN sel |-> <<sel[i][DST], <<sel[i][PKT], 0, {sel[i][DST]}>>>>]

incoming_small_flows_stats(small_window) ==
  LET sel == SelectSeq(small_window, LAMBDA json_rdd : re_match(network_filter, json_rdd[DST]))
  IN [i \in DOMAIN sel |-> <<sel[i][DST], <<sel[i][PKT], 0, {sel[i][SRC]}>>>>]

\* variant: an outgoing event records the peer address too
outgoing_small_flows_stats_addsPeer(small_window) ==
  LET sel == SelectSeq(small_window, LAMBDA json_rdd : re_match(network_filter, json_rdd[SRC]))
  IN [i \in DOMAIN sel |-> <<sel[i][SRC], <<0, sel[i][PKT], {sel[i][DST]}>>>>]

outgoing_small_flows_stats(small_window) ==
  LET sel == SelectSeq(small_window, LAMBDA json_rdd : re_match(network_filter, json_rdd[SRC]))
  IN [i \in DOMAIN sel |-> <<sel[i][SRC], <<0, sel[i][PKT], {}>>>>]

\* variant: the incoming count of the update is not added
small_reduce_dropIncoming(actual, update) ==
  <<actual[1], actual[2] + update[2], actual[3] \cup update[3]>>

\* variant: the sources of the update replace those merged so far
small_reduce_lastSources(actual, update) ==
  <<actual[1] + update[1], actual[2] + update[2], update[3]>>

\* lambda of the reduceByKey of the base window
small_reduce(actual, update) ==
  <<actual[1] + update[1], actual[2] + update[2], actual[3] \cup update[3]>>

RECURSIVE small_reduce_values(_)
\* reduceByKey on the non-empty values of one key: a single value is kept
\* untouched, the lambda is not called
small_reduce_values(vs) ==
  IF Len(vs) = 1 THEN vs[1]
  ELSE small_reduce(small_reduce_values(SubSeq(vs, 1, Len(vs) - 1)), vs[Len(vs)])

small_window_aggregated(small_window) ==
  LET rdd == incoming_small_flows_stats(small_window) \o outgoing_small_flows_stats(small_window)
  IN [k \in KeysOf(rdd) |-> small_reduce_values(ValuesOf(rdd, k))]

\* variant: a slide without data is not counted as an interval of the window
DStreamWindow_skipEmpty(rdds, windowLength, slide) ==
  LET n == windowLength \div slide
      kept == IF rdds # <<>> /\ rdds[Len(rdds)] = EmptyMap
              THEN SubSeq(rdds, 1, Len(rdds) - 1) ELSE rdds
  IN IF Len(kept) <= n THEN kept ELSE SubSeq(kept, Len(kept) - n + 1, Len(kept))

\* dstream.window(windowLength, slide) over a parent that slides by `slide`:
\* the RDDs of the last windowLength / slide slides
DStreamWindow(rdds, windowLength, slide) ==
  LET n == windowLength \div slide
  IN IF Len(rdds) <= n THEN rdds ELSE SubSeq(rdds, Len(rdds) - n + 1, Len(rdds))

RECURSIVE UnionRDDs(_)
UnionRDDs(rdds) ==
  IF rdds = <<>> THEN <<>> ELSE Pairs(Head(rdds)) \o UnionRDDs(Tail(rdds))

\* variant: the window ends before the RDD of the current slide
union_long_flows_previousOnly(rdds) ==
  LET w == DStreamWindow(rdds, long_window_length, base_window_length)
  IN UnionRDDs(SubSeq(w, 1, Len(w) - 1))

union_long_flows(rdds) == UnionRDDs(DStreamWindow(rdds, long_window_length, base_window_length))

\* variant: index slip in the outgoing sum
long_reduce_indexSlip(actual, update) == <<actual[1] + update[1], actual[2] + update[1]>>

\* lambda of the reduceByKey of the long window
long_reduce(actual, update) == <<actual[1] + update[1], actual[2] + update[2]>>

RECURSIVE long_reduce_values(_)
\* reduceByKey on the non-empty values of one key: a single value is kept
\* untouched, the lambda is not called
long_reduce_values(vs) ==
  IF Len(vs) = 1 THEN vs[1]
  ELSE long_reduce(long_reduce_values(SubSeq(vs, 1, Len(vs) - 1)), vs[Len(vs)])

long_window_aggregated(rdds) ==
  LET rdd == union_long_flows(rdds)
  IN [k \in KeysOf(rdd) |-> long_reduce_values(ValuesOf(rdd, k))]

\* variant: right outer join, an absent short side read as an empty tally
windows_union_rightOuter(small, long) ==
  [k \in DOMAIN long |-> <<IF k \in DOMAIN small THEN small[k] ELSE <<0, 0, {}>>, long[k]>>]

\* small_window_aggregated.join(long_window_aggregated)
windows_union(small, long) ==
  [k \in DOMAIN small \cap DOMAIN long |-> <<small[k], long[k]>>]

\* In the filters below rdd is the pair (key, value) given to the lambda.
\* variant: no zero filter
nonzero_union_noGuard(union) == union

nonzero_union(union) ==
  LET keep(rdd) == rdd[2][1][2] # 0 /\ rdd[2][2][2] # 0
  IN [k \in { x \in DOMAIN union : keep(<<x, union[x]>>) } |-> union[k]]

\* the second filter divides by rdd[1][0][1] and then by rdd[1][1][1] once
\* the left operand of `and` is true
FilterRaisesZeroDivision(nonzero) ==
  \E k \in DOMAIN nonzero :
     /\ nonzero[k][1][1] > minimal_incoming
     /\ nonzero[k][1][2] = 0 \/ nonzero[k][2][2] = 0

\* variant: the long ratio is not multiplied by the threshold
windows_union_filtered_noThreshold(nonzero) ==
  LET keep(rdd) ==
        /\ rdd[2][1][1] > minimal_incoming
        /\ FloatGT(FloatDiv(rdd[2][1][1], rdd[2][1][2]),
                   FloatDiv(rdd[2][2][1], rdd[2][2][2]))
  IN [k \in { x \in DOMAIN nonzero : keep(<<x, nonzero[x]>>) } |-> nonzero[k]]

\* variant: the threshold multiplies the short ratio
windows_union_filtered_thresholdOnShort(nonzero) ==
  LET keep(rdd) ==
        /\ rdd[2][1][1] > minimal_incoming
        /\ FloatGT(FloatMul(FloatDiv(rdd[2][1][1], rdd[2][1][2]), threshold),
                   FloatDiv(rdd[2][2][1], rdd[2][2][2]))
  IN [k \in { x \in DOMAIN nonzero : keep(<<x, nonzero[x]>>) } |-> nonzero[k]]

windows_union_filtered(nonzero) ==
  LET keep(rdd) ==
        /\ rdd[2][1][1] > minimal_incoming
        /\ FloatGT(FloatDiv(rdd[2][1][1], rdd[2][1][2]),
                   FloatMul(FloatDiv(rdd[2][2][1], rdd[2][2][2]), threshold))
  IN [k \in { x \in DOMAIN nonzero : keep(<<x, nonzero[x]>>) } |-> nonzero[k]]

\* ------------------------------------------------------- print_and_send
PrintRaisesZeroDivision(rdd_map) ==
  \E host \in DOMAIN rdd_map : rdd_map[host][1][2] = 0 \/ rdd_map[host][2][2] = 0

new_entry(host, stats) ==
  [type |-> "detection.ddos",
   dst_ip |-> host,
   shortratio |-> FloatDiv(stats[1][1], stats[1][2]),
   longratio |-> FloatDiv(stats[2][1], stats[2][2]),
   attackers |-> SetToSeq(stats[1][3])]

\* variant: every line is appended to `results` twice
print_and_send_twice(rdd_map) ==
  LET hosts == SetToSeq(DOMAIN rdd_map) \o SetToSeq(DOMAIN rdd_map)
  IN [i \in DOMAIN hosts |-> new_entry(hosts[i], rdd_map[hosts[i]])]

\* the lines of `results`, one per host of the collected map
print_and_send(rdd_map) ==
  LET hosts == SetToSeq(DOMAIN rdd_map)
  IN [i \in DOMAIN hosts |-> new_entry(hosts[i], rdd_map[hosts[i]])]

\* ---------------------------------------------------------------- state
VARIABLES
  input_stream,   \* records received in the base interval that is still open
  retained,       \* RDDs of small_window_aggregated kept for the long window
  short_rdd,      \* small_window_aggregated of the last tick
  long_rdd,       \* long_window_aggregated of the last tick
  union_rdd,      \* windows_union of the last tick
  ddos_result,    \* windows_union_filtered of the last tick
  sent,           \* messages handed to the Kafka producer by the last tick
  error,          \* exception that ended the process, or "none"
  pc,             \* the statement of __main__ the driver is at
  args_network_filter  \* what the command line gave for -nf

vars == <<input_stream, retained, short_rdd, long_rdd, union_rdd,
          ddos_result, sent, error, pc, args_network_filter>>

\* the cases of the -nf argument: not given, given but not a regular
\* expression (an unbalanced parenthesis), given and matching the local network
NetworkFilterArguments == {"absent", "unbalanced", "local"}

\* re.compile raises re.error on a pattern that is not a regular expression
re_compile_raises(pattern) == pattern = "unbalanced"

WindowRDDs == long_window_length \div base_window_length

Init ==
  /\ input_stream = EmptyBag
  /\ retained = <<>>
  /\ short_rdd = EmptyMap
  /\ long_rdd = EmptyMap
  /\ union_rdd = EmptyMap
  /\ ddos_result = EmptyMap
  /\ sent = <<>>
  /\ error = "none"
  /\ pc = "parse_args"
  /\ args_network_filter \in NetworkFilterArguments

\* the process ends with exception e before the streaming context started
Exit(e) ==
  /\ error' = e
  /\ pc' = "exited"
  /\ UNCHANGED <<input_stream, retained, short_rdd, long_rdd, union_rdd,
                 ddos_result, sent, args_network_filter>>

\* parser.parse_args(): a required argument that is missing ends the process
ParseArgs ==
  /\ pc = "parse_args"
  /\ IF args_network_filter = "absent"
       THEN Exit("SystemExit")
       ELSE /\ pc' = "inspect_ddos"
            /\ UNCHANGED <<input_stream, retained, short_rdd, long_rdd, union_rdd,
                           ddos_result, sent, error, args_network_filter>>

\* variant: the pattern is compiled inside the filter lambda, by the first job
InspectDdos_lazyCompile ==
  /\ pc = "inspect_ddos"
  /\ pc' = "start"
  /\ UNCHANGED <<input_stream, retained, short_rdd, long_rdd, union_rdd,
                 ddos_result, sent, error, args_network_filter>>

\* inspect_ddos(input_stream) builds the stream graph; its first statement
\* compiles the pattern
InspectDdos ==
  /\ pc = "inspect_ddos"
  /\ IF re_compile_raises(args_network_filter)
       THEN Exit("re.error")
       ELSE /\ pc' = "start"
            /\ UNCHANGED <<input_stream, retained, short_rdd, long_rdd, union_rdd,
                           ddos_result, sent, error, args_network_filter>>

\* ssc.start(): the receiver and the jobs begin; the driver waits
Start ==
  /\ pc = "start"
  /\ pc' = "awaitTermination"
  /\ UNCHANGED <<input_stream, retained, short_rdd, long_rdd, union_rdd,
                 ddos_result, sent, error, args_network_filter>>

\* a message of the input topic arrives (already parsed by json.loads)
Receive ==
  /\ pc = "awaitTermination"
  /\ error = "none"
  /\ BagCardinality(input_stream) < MaxBatch
  /\ \E r \in FlowRecords \cup AddressLessRecords \cup CountLessRecords :
        input_stream' = input_stream (+) SetToBag({r})
  /\ UNCHANGED <<retained, short_rdd, long_rdd, union_rdd, ddos_result, sent, error,
                 pc, args_network_filter>>

\* an exception of a job ends the streaming context and the process: the
\* streams and their RDDs are gone
Raise(e) ==
  /\ error' = e
  /\ input_stream' = EmptyBag
  /\ retained' = <<>>
  /\ short_rdd' = EmptyMap
  /\ long_rdd' = EmptyMap
  /\ union_rdd' = EmptyMap
  /\ ddos_result' = EmptyMap
  /\ sent' = <<>>
  /\ pc' = "exited"
  /\ UNCHANGED args_network_filter

\* variant: an empty `results` is not handed to the producer
Slide_skipEmpty(small, rdds, long, union, result) ==
  /\ input_stream' = EmptyBag
  /\ retained' = rdds
  /\ short_rdd' = small
  /\ long_rdd' = long
  /\ union_rdd' = union
  /\ ddos_result' = result
  /\ sent' = IF result = EmptyMap THEN <<>> ELSE <<print_and_send(result)>>
  /\ UNCHANGED <<error, pc, args_network_filter>>

\* variant: the base window overlaps the next one, its records stay in it
Slide_keepRecords(small, rdds, long, union, result) ==
  /\ input_stream' = input_stream
  /\ retained' = rdds
  /\ short_rdd' = small
  /\ long_rdd' = long
  /\ union_rdd' = union
  /\ ddos_result' = result
  /\ sent' = <<print_and_send(result)>>
  /\ UNCHANGED <<error, pc, args_network_filter>>

\* the RDDs produced by one slide of the base window
Slide(small, rdds, long, union, result) ==
  /\ input_stream' = EmptyBag
  /\ retained' = rdds
  /\ short_rdd' = small
  /\ long_rdd' = long
  /\ union_rdd' = union
  /\ ddos_result' = result
  /\ sent' = <<print_and_send(result)>>
  /\ UNCHANGED <<error, pc, args_network_filter>>

\* variant: the join reads the long tallies of the previous tick
Tick_detectBeforeAbsorb ==
  /\ pc = "awaitTermination"
  /\ error = "none"
  /\ \E window \in {filtered_stream_data(BagToSeq(input_stream))} :
       IF RaisesKeyError(window) THEN Raise("KeyError")
       ELSE
         \E small \in {small_window_aggregated(window)} :
         \E rdds \in {DStreamWindow(Append(retained, small), long_window_length, base_window_length)} :
         \E long \in {long_window_aggregated(rdds)} :
         \E union \in {windows_union(small, long_rdd)} :
         \E nonzero \in {nonzero_union(union)} :
           IF FilterRaisesZeroDivision(nonzero) THEN Raise("ZeroDivisionError")
           ELSE
             \E result \in {windows_union_filtered(nonzero)} :
               IF PrintRaisesZeroDivision(result) THEN Raise("ZeroDivisionError")
               ELSE Slide(small, rdds, long, union, result)

\* the base window slides: the jobs of inspect_ddos and the foreachRDD callback
\* (the records of the batch are taken in one order; the reduces are checked
\* against every merge order by C18_OrderIndependent)
Tick ==
  /\ pc = "awaitTermination"
  /\ error = "none"
  /\ \E window \in {filtered_stream_data(BagToSeq(input_stream))} :
       IF RaisesKeyError(window) THEN Raise("KeyError")
       ELSE
         \E small \in {small_window_aggregated(window)} :
         \E rdds \in {DStreamWindow(Append(retained, small), long_window_length, base_window_length)} :
         \E long \in {long_window_aggregated(rdds)} :
         \E union \in {windows_union(small, long)} :
         \E nonzero \in {nonzero_union(union)} :
           IF FilterRaisesZeroDivision(nonzero) THEN Raise("ZeroDivisionError")
           ELSE
             \E result \in {windows_union_filtered(nonzero)} :
               IF PrintRaisesZeroDivision(result) THEN Raise("ZeroDivisionError")
               ELSE Slide(small, rdds, long, union, result)

Next == ParseArgs \/ InspectDdos \/ Start \/ Receive \/ Tick

Spec == Init /\ [][Next]_vars

TypeOK ==
  /\ error \in {"none", "SystemExit", "re.error", "KeyError", "ZeroDivisionError"}
  /\ pc \in {"parse_args", "inspect_ddos", "start", "awaitTermination", "exited"}
  /\ args_network_filter \in NetworkFilterArguments
  /\ BagCardinality(input_stream) <= MaxBatch
  /\ Len(retained) <= WindowRDDs

\* ------------------------------------------------------------ properties
LocalHosts == {HostH, HostG}

\* a step of Tick that completed: the job ran without an exception and the
\* step is not the arrival of a record
Ticked ==
  /\ pc = "awaitTermination"
  /\ error' = "none"
  /\ BagCardinality(input_stream') <= BagCardinality(input_stream)

Complete(r) == {SRC, DST, PKT} \subseteq DOMAIN r

RECURSIVE SumSeq(_)
SumSeq(ns) == IF ns = <<>> THEN 0 ELSE Head(ns) + SumSeq(Tail(ns))


\* the complete records of a bag, listed once each
CompleteOf(records) == SetToSeq({ r \in BagToSet(records) : Complete(r) })

\* packets of the inbound (outbound) attribution events of host h in a bag of records
PacketsTo(records, h) ==
  LET rs == CompleteOf(records)
  IN SumSeq([i \in DOMAIN rs |->
               IF rs[i][DST] = h THEN CopiesIn(rs[i], records) * rs[i][PKT] ELSE 0])
PacketsFrom(records, h) ==
  LET rs == CompleteOf(records)
  IN SumSeq([i \in DOMAIN rs |->
               IF rs[i][SRC] = h THEN CopiesIn(rs[i], records) * rs[i][PKT] ELSE 0])
SourcesTo(records, h) ==
  { r[SRC] : r \in { q \in BagToSet(records) : Complete(q) /\ q[DST] = h } }
ActiveHosts(records) ==
  { h \in LocalHosts : \E r \in BagToSet(records) :
       Complete(r) /\ (r[DST] = h \/ r[SRC] = h) }

\* hosts alerted when one host has the given short and long tallies
AlertsFor(short, long) ==
  DOMAIN windows_union_filtered(nonzero_union(windows_union(HostH :> short, HostH :> long)))

\* C1: a host in both mappings with non-zero outgoing counts is alerted exactly
\* when its short incoming count exceeds minimal_incoming and its short ratio
\* exceeds threshold times its long ratio; 150000/100 against 7000000/1000000
\* alerts, 50000/100 against the same long tally does not.
C1_AlertRule ==
  /\ \A h \in DOMAIN short_rdd \cap DOMAIN long_rdd :
        (short_rdd[h][2] # 0 /\ long_rdd[h][2] # 0) =>
           (h \in DOMAIN ddos_result <=>
              /\ short_rdd[h][1] > minimal_incoming
              /\ RatGT(short_rdd[h][1], short_rdd[h][2], threshold * long_rdd[h][1], long_rdd[h][2]))
  /\ AlertsFor(<<150000, 100, {RemoteX}>>, <<7000000, 1000000>>) = {HostH}
  /\ AlertsFor(<<50000, 100, {RemoteX}>>, <<7000000, 1000000>>) = {}

\* a host with non-zero outgoing counts is alerted
C1_Witness ==
  /\ error = "none"
  /\ \E h \in DOMAIN ddos_result : short_rdd[h][1] > minimal_incoming /\ short_rdd[h][2] # 0

\* C2: no alert for a host whose short or long outgoing count is 0, and no
\* division of the detector or of print_and_send has a zero divisor.
C2_NoZeroDivisor ==
  /\ error # "ZeroDivisionError"
  /\ \A h \in DOMAIN ddos_result : short_rdd[h][2] # 0 /\ long_rdd[h][2] # 0
  /\ \A m \in DOMAIN sent : \A i \in DOMAIN sent[m] :
        sent[m][i].shortratio[2] # 0 /\ sent[m][i].longratio[2] # 0

\* a host with more than minimal_incoming packets in and none out went unalerted
C2_Witness ==
  /\ error = "none"
  /\ \E h \in DOMAIN short_rdd :
        /\ short_rdd[h][1] > minimal_incoming
        /\ short_rdd[h][2] = 0
        /\ h \in DOMAIN long_rdd
        /\ h \notin DOMAIN ddos_result

\* intervals of the long window in which host h has a short tally
IntervalsOf(h) == { i \in DOMAIN retained : h \in DOMAIN retained[i] }

\* component c of the short tallies of host h, summed over the long window
WindowSum(h, c) ==
  SumSeq([i \in DOMAIN retained |-> IF h \in DOMAIN retained[i] THEN retained[i][h][c] ELSE 0])

\* the last n elements of a sequence, all of them when it is shorter
LastN(seq, n) ==
  LET m == IF Len(seq) < n THEN Len(seq) ELSE n
  IN [i \in 1..m |-> seq[Len(seq) - m + i]]

\* C3: at every tick the window holds the short mappings sealed in the last
\* long_window_length / base_window_length base intervals (fewer at start-up),
\* the long tally of a host is the component-wise sum of its short tallies in
\* them, and a host with no short tally in them is absent from the long mapping.
C3_LongIsWindowSum ==
  [][Ticked =>
       /\ retained' = LastN(Append(retained, short_rdd'),
                            long_window_length \div base_window_length)
       /\ DOMAIN long_rdd' = { h \in Addresses : IntervalsOf(h)' # {} }
       /\ \A h \in DOMAIN long_rdd' :
             /\ long_rdd'[h][1] = WindowSum(h, 1)'
             /\ long_rdd'[h][2] = WindowSum(h, 2)']_vars

\* a full window: a host summed over two intervals, another one absent
C3_Witness ==
  /\ Len(retained) = WindowRDDs
  /\ \E h \in DOMAIN long_rdd :
        /\ Cardinality(IntervalsOf(h)) >= 2
        /\ long_rdd[h][1] > 0 /\ long_rdd[h][2] > 0
  /\ \E g \in LocalHosts : g \notin DOMAIN long_rdd

TotalIncoming(rdd) ==
  LET hs == SetToSeq(DOMAIN rdd) IN SumSeq([i \in DOMAIN hs |-> rdd[hs[i]][1]])

\* packets of all inbound attribution events of a bag of records
InboundPackets(records) ==
  LET rs == CompleteOf(records)
  IN SumSeq([i \in DOMAIN rs |->
               IF rs[i][DST] \in LocalHosts THEN CopiesIn(rs[i], records) * rs[i][PKT] ELSE 0])

\* C4: the incoming counts of a sealed interval, summed over the hosts, equal
\* the packets of the inbound events of the interval.
C4_Conservation ==
  [][Ticked =>
       TotalIncoming(short_rdd') = InboundPackets(input_stream)]_vars

\* two hosts with inbound packets in one interval
C4_Witness ==
  /\ Cardinality({ h \in DOMAIN short_rdd : short_rdd[h][1] > 0 }) = 2
  /\ TotalIncoming(short_rdd) > minimal_incoming

\* C5: a long tally is the pair of packet sums and never carries a set of sources.
C5_LongHasNoSources ==
  \A h \in DOMAIN long_rdd : Len(long_rdd[h]) = 2

\* C6: the join is an inner join on the host: a host in only one of the two
\* mappings is not in the joined mapping and is not alerted.
C6_InnerJoin ==
  /\ DOMAIN union_rdd = DOMAIN short_rdd \cap DOMAIN long_rdd
  /\ \A h \in Addresses :
        (h \notin DOMAIN short_rdd \/ h \notin DOMAIN long_rdd) => h \notin DOMAIN ddos_result

\* a host with a long tally and no short tally, next to a host present in
\* both mappings
C6_Witness ==
  /\ error = "none"
  /\ \E h \in DOMAIN long_rdd : h \notin DOMAIN short_rdd /\ long_rdd[h][1] > 0
  /\ union_rdd # EmptyMap

NoEvents(records) == ActiveHosts(records) = {}

\* the interval that leaves the long window at the next tick
Evicted == IF Len(retained) = WindowRDDs THEN retained[1] ELSE EmptyMap

EvictedOf(h, c) == IF h \in DOMAIN Evicted THEN Evicted[h][c] ELSE 0

\* C7: a tick without events alerts nobody and leaves every long tally as it
\* was, less the contribution of the interval that left the window.
C7_NoOpTick ==
  [][(Ticked /\ NoEvents(input_stream)) =>
       /\ ddos_result' = EmptyMap
       /\ sent' = << <<>> >>
       /\ DOMAIN long_rdd' \subseteq DOMAIN long_rdd
       /\ \A h \in DOMAIN long_rdd' :
             /\ long_rdd'[h][1] = long_rdd[h][1] - EvictedOf(h, 1)
             /\ long_rdd'[h][2] = long_rdd[h][2] - EvictedOf(h, 2)
       /\ \A h \in DOMAIN long_rdd \ DOMAIN long_rdd' :
             /\ long_rdd[h][1] = EvictedOf(h, 1)
             /\ long_rdd[h][2] = EvictedOf(h, 2)
             /\ h \in DOMAIN Evicted]_vars

\* a tick without events on a full window that left a long tally
C7_Witness ==
  /\ Len(retained) = WindowRDDs
  /\ short_rdd = EmptyMap
  /\ long_rdd # EmptyMap
  /\ ddos_result = EmptyMap
  /\ sent = << <<>> >>

\* C8: the attackers of an alert for host h are exactly the distinct sources of
\* the records sent to h in the interval just sealed.
C8_Attackers ==
  [][Ticked =>
       /\ { sent'[1][i].dst_ip : i \in DOMAIN sent'[1] } = DOMAIN ddos_result'
       /\ \A i \in DOMAIN sent'[1] :
             /\ Range(sent'[1][i].attackers) = SourcesTo(input_stream, sent'[1][i].dst_ip)
             /\ Len(sent'[1][i].attackers) = Cardinality(Range(sent'[1][i].attackers))]_vars

\* an alert while an older interval of the window holds another source of the
\* same host
C8_Witness ==
  /\ Len(sent) = 1
  /\ \E i \in DOMAIN sent[1] :
        LET e == sent[1][i]
        IN /\ Len(e.attackers) > 0
           /\ \E j \in DOMAIN retained :
                 /\ j < Len(retained)
                 /\ e.dst_ip \in DOMAIN retained[j]
                 /\ retained[j][e.dst_ip][3] \ Range(e.attackers) # {}

\* C9: a record is an inbound event of its destination when that is local, an
\* outbound event of its source when that is local, both when both are local,
\* and changes no tally when neither is.
C9_Classification ==
  [][Ticked =>
       /\ DOMAIN short_rdd' = ActiveHosts(input_stream)
       /\ \A h \in DOMAIN short_rdd' :
             short_rdd'[h] = <<PacketsTo(input_stream, h),
                               PacketsFrom(input_stream, h),
                               SourcesTo(input_stream, h)>>]_vars

\* a host among its own sources, next to the destination of local-to-local traffic
C9_Witness ==
  /\ HostH \in DOMAIN short_rdd
  /\ HostH \in short_rdd[HostH][3]
  /\ short_rdd[HostH][1] > 0 /\ short_rdd[HostH][2] > short_rdd[HostH][1]
  /\ short_rdd[HostG][1] > 0 /\ short_rdd[HostG][2] = 0
  /\ HostG \in DOMAIN short_rdd
  /\ short_rdd[HostG][3] = {HostH}

\* C10: a record without one of the three required fields is dropped: it adds
\* to no tally and the aggregation of its interval does not fail.
C10_PartialDropped ==
  [][(error = "none" /\ \E r \in BagToSet(input_stream) : ~Complete(r)) =>
       /\ error' = "none"
       /\ Ticked => /\ DOMAIN short_rdd' = ActiveHosts(input_stream)
                    /\ \A h \in DOMAIN short_rdd' :
                          /\ short_rdd'[h][1] = PacketsTo(input_stream, h)
                          /\ short_rdd'[h][2] = PacketsFrom(input_stream, h)]_vars

\* C11: a tick emits at most one alert per host: every qualifying host has
\* exactly one line in the message and no host has two.
C11_OneAlertPerHost ==
  \A m \in DOMAIN sent :
     /\ \A i, j \in DOMAIN sent[m] : sent[m][i].dst_ip = sent[m][j].dst_ip => i = j
     /\ \A h \in DOMAIN ddos_result :
           Cardinality({ i \in DOMAIN sent[m] : sent[m][i].dst_ip = h }) = 1

\* an alerted host that had several records in the interval, next to another host
C11_Witness ==
  /\ Len(sent) = 1
  /\ Len(sent[1]) = 1
  /\ \E h \in DOMAIN ddos_result : short_rdd[h][1] > 0 /\ short_rdd[h][2] > 0
  /\ Cardinality(DOMAIN short_rdd) = 2

\* C12: with a missing or invalid local-network pattern the process never
\* reaches ssc.start(): it holds no record, has aggregated nothing and has
\* sent nothing, and once it has stopped it stopped with the start-up error
\* (a missing argument already at parse_args).
C12_FatalAtStartup ==
  args_network_filter \in {"absent", "unbalanced"} =>
     /\ pc \in {"parse_args", "inspect_ddos", "exited"}
     /\ args_network_filter = "absent" => pc # "inspect_ddos"
     /\ pc = "exited" => error \in {"SystemExit", "re.error"}
     /\ pc # "exited" => error = "none"
     /\ input_stream = EmptyBag
     /\ retained = <<>>
     /\ short_rdd = EmptyMap /\ long_rdd = EmptyMap
     /\ ddos_result = EmptyMap
     /\ sent = <<>>

\* the process stopped on the pattern that does not compile
C12_Witness ==
  /\ args_network_filter = "unbalanced"
  /\ pc = "exited"
  /\ error = "re.error"

\* C13: short windows tumble and carry nothing over: a tick leaves no record
\* in the open interval, and the short tally it seals holds, for each host,
\* the packets of the records of this interval only, each counted once per
\* local side, whatever the earlier intervals held.
C13_TumblingShortWindow ==
  [][Ticked =>
       /\ input_stream' = EmptyBag
       /\ DOMAIN short_rdd' = ActiveHosts(input_stream)
       /\ \A h \in DOMAIN short_rdd' :
             short_rdd'[h][1] + short_rdd'[h][2]
               = PacketsTo(input_stream, h) + PacketsFrom(input_stream, h)]_vars

\* two sealed intervals: the host had more inbound packets in the earlier one,
\* and the tally of the later one is the smaller count alone
C13_Witness ==
  /\ Len(retained) = 2
  /\ short_rdd = retained[2]
  /\ input_stream = EmptyBag
  /\ \E h \in DOMAIN retained[1] \cap DOMAIN short_rdd :
        /\ short_rdd[h][1] > 0
        /\ retained[1][h][1] > short_rdd[h][1]

\* C14: within a tick the detector reads the long tallies after the interval
\* just sealed was absorbed and the oldest one evicted: the long side of every
\* joined host, and the long ratio of every alert, is the window sum of the
\* previous tick, less the evicted interval, plus the short tally of this tick.
C14_SealAbsorbDetect ==
  [][Ticked =>
       /\ \A h \in DOMAIN union_rdd' : \A c \in {1, 2} :
             union_rdd'[h][2][c] = WindowSum(h, c) - EvictedOf(h, c) + short_rdd'[h][c]
       /\ \A i \in DOMAIN sent'[1] :
             LET h == sent'[1][i].dst_ip
             IN sent'[1][i].longratio
                  = FloatDiv(WindowSum(h, 1) - EvictedOf(h, 1) + short_rdd'[h][1],
                             WindowSum(h, 2) - EvictedOf(h, 2) + short_rdd'[h][2])]_vars

\* an alert on a full window whose long ratio counts an older interval too
C14_Witness ==
  /\ Len(retained) = WindowRDDs
  /\ Len(sent) = 1
  /\ \E i \in DOMAIN sent[1] :
        LET h == sent[1][i].dst_ip
        IN /\ sent[1][i].longratio = FloatDiv(long_rdd[h][1], long_rdd[h][2])
           /\ long_rdd[h][2] > short_rdd[h][2]
           /\ short_rdd[h][2] > 0

\* C15: every address in the source set of a host's short tally is the source
\* of a record of the interval whose destination is that host; outbound events
\* add no address, so a host with outbound activity only has an empty set.
C15_SourcesAreInbound ==
  [][Ticked =>
       \A h \in DOMAIN short_rdd' :
          /\ \A a \in short_rdd'[h][3] :
                \E r \in BagToSet(input_stream) :
                   Complete(r) /\ r[DST] = h /\ r[SRC] = a
          /\ (\A r \in BagToSet(input_stream) : Complete(r) => r[DST] # h)
                => short_rdd'[h][3] = {}]_vars

\* a host with outbound packets only and no source, next to its destination
C15_Witness ==
  \E h, g \in DOMAIN short_rdd :
     /\ short_rdd[h][1] = 0 /\ short_rdd[h][2] > 0 /\ short_rdd[h][3] = {}
     /\ short_rdd[g][1] > 0 /\ short_rdd[g][3] = {h}

\* C16: every host of the sealed short mapping is in the long mapping with
\* long counts at least the short ones; so the join drops no short tally, and
\* a non-zero short outgoing count implies a non-zero long outgoing count.
C16_LongCoversShort ==
  /\ \A h \in DOMAIN short_rdd :
        /\ h \in DOMAIN long_rdd
        /\ long_rdd[h][1] >= short_rdd[h][1]
        /\ long_rdd[h][2] >= short_rdd[h][2]
        /\ short_rdd[h][2] # 0 => long_rdd[h][2] # 0
  /\ DOMAIN union_rdd = DOMAIN short_rdd

\* a host whose long tally is strictly above its short tally, next to a host
\* whose tallies coincide
C16_Witness ==
  /\ \E h \in DOMAIN short_rdd :
        /\ long_rdd[h][1] > short_rdd[h][1] /\ short_rdd[h][1] > 0
        /\ long_rdd[h][2] > short_rdd[h][2] /\ short_rdd[h][2] > 0
  /\ \E g \in DOMAIN short_rdd :
        long_rdd[g][1] = short_rdd[g][1] /\ long_rdd[g][2] = short_rdd[g][2]

\* C17: a host whose long tally equals its short tally, the interval just
\* sealed being its only activity in the window, is not alerted, whatever its
\* inbound volume and ratio.
C17_NoAlertOnFirstActivity ==
  \A h \in DOMAIN short_rdd \cap DOMAIN long_rdd :
     (long_rdd[h][1] = short_rdd[h][1] /\ long_rdd[h][2] = short_rdd[h][2])
        => /\ h \notin DOMAIN ddos_result
           /\ \A m \in DOMAIN sent : \A i \in DOMAIN sent[m] : sent[m][i].dst_ip # h

\* inbound volume above the minimum with outgoing traffic, in the only
\* interval of the window: the tick sent a message without the host
C17_Witness ==
  /\ Len(retained) = 1
  /\ Len(sent) = 1
  /\ \E h \in DOMAIN short_rdd :
        /\ short_rdd[h][1] > minimal_incoming
        /\ short_rdd[h][2] > 0
        /\ long_rdd[h][1] = short_rdd[h][1] /\ long_rdd[h][2] = short_rdd[h][2]
        /\ h \in DOMAIN union_rdd
        /\ h \notin DOMAIN ddos_result

\* C18: the short mapping, the long mapping and the alerts of a tick do not
\* depend on the order in which the records of the interval are delivered and
\* merged: whatever the order in which the values of a host reach the reduce,
\* in the base window and in the long window, the tallies are those the tick
\* produced, and the alerts are a function of the tallies.
C18_OrderIndependent ==
  [][Ticked =>
       /\ \A window \in {filtered_stream_data(BagToSeq(input_stream))} :
          \A rdd \in {incoming_small_flows_stats(window) \o outgoing_small_flows_stats(window)} :
             /\ KeysOf(rdd) = DOMAIN short_rdd'
             /\ \A k \in KeysOf(rdd) : \A vs \in SeqPermutations(ValuesOf(rdd, k)) :
                   small_reduce_values(vs) = short_rdd'[k]
       /\ \A rdd \in {union_long_flows(retained')} :
             /\ KeysOf(rdd) = DOMAIN long_rdd'
             /\ \A k \in KeysOf(rdd) : \A vs \in SeqPermutations(ValuesOf(rdd, k)) :
                   long_reduce_values(vs) = long_rdd'[k]
       /\ ddos_result' = windows_union_filtered(nonzero_union(windows_union(short_rdd', long_rdd')))
       /\ sent' = <<print_and_send(ddos_result')>>]_vars

\* a short tally merged from values with different source sets, and a long
\* tally merged from two intervals
C18_Witness ==
  /\ Len(retained) = WindowRDDs
  /\ \E h \in DOMAIN short_rdd :
        /\ Cardinality(short_rdd[h][3]) >= 2
        /\ short_rdd[h][2] > 0
        /\ long_rdd[h][1] > short_rdd[h][1]

\* C19: every tick hands exactly one message to the producer, with one line
\* for each alerted host of the tick; without alerts the message is empty,
\* and it is still sent.
C19_OneMessagePerTick ==
  [][Ticked =>
       /\ Len(sent') = 1
       /\ Len(sent'[1]) = Cardinality(DOMAIN ddos_result')
       /\ \A h \in DOMAIN ddos_result' :
             \E i \in DOMAIN sent'[1] : sent'[1][i].dst_ip = h
       /\ ddos_result' = EmptyMap => sent' = << <<>> >>]_vars

\* a tick with joined tallies and no alert sent one empty message
C19_Witness ==
  /\ union_rdd # EmptyMap
  /\ ddos_result = EmptyMap
  /\ Len(sent) = 1
  /\ sent[1] = <<>>

====
